---- MODULE Spec2Model ----
(***************************************************************************)
(* Model of the swarm2 kernel: the self-healing tool wrapper               *)
(* (kernel.self_healing_tool) and the worker dispatch / result rendezvous  *)
(* (kernel.spawn_worker, kernel.check_worker_status, agents/worker.py).    *)
(*                                                                         *)
(* Python strings are modelled as sequences of word tokens, Python dicts   *)
(* as TLA+ functions from keys to values, files as token sequences.        *)
(***************************************************************************)
EXTENDS Integers, Sequences, FiniteSets, TLC

VARIABLES
  \* ---- self_healing_tool.wrapper (kernel.py 30-67) ----
  wrapper_pc,       \* "idle" | "gate" | "call" | "prompt" | "healer" | "heal"
                    \*        | "returned" | "raised"
  func_name,        \* func.__name__ of the wrapped operation
  kwargs,           \* the caller's keyword arguments
  current_kwargs,   \* local current_kwargs (a Python value)
  last_error,       \* local last_error
  attempt,          \* loop variable of "for attempt in range(attempts)"
  tries,            \* value of current_kwargs at each evaluation of line 37
  calls,            \* every call that entered func: [args, ok, out]
  heals,            \* outcome of every healer.run call: [kind, text]
  ret,              \* value returned by wrapper (a string, as tokens)
  invocations,      \* number of top-level wrapper calls so far
  answer,           \* the last answer read by the prompt of a gated tool's call
  approved,         \* [ok, v]: the arguments shown at the prompt answered y
  \* ---- requires_permission(spawn_worker) (security.py 11-31, kernel.py 160-183) ----
  master_pc,        \* "idle" | "prompt" | "makedirs" | "popen"
  request,          \* [role, goal] of the spawn_worker call in progress
  worker_id,        \* local worker_id of spawn_worker
  prompts,          \* invalid answers given to the prompt of the call in progress
  spawn_ret,        \* outcome of the last spawn_worker call: [kind, id]
  issued,           \* values uuid4() has returned
  handles,          \* ids returned to the caller in "Worker Started. ID: ..."
  choice,           \* local choice of requires_permission.wrapper: the last answer
  executed,         \* times the gated function was entered in the call in progress
  dispatched,       \* id -> [role, goal] spawn_worker was called with
  \* ---- the file system under ./workspaces ----
  dirs,             \* ids whose workspace directory exists
  file,             \* id -> [exists, data] of <workspace>/result.json
  \* ---- worker processes (agents/worker.py run_worker) ----
  worker_pc,        \* id -> "none" | "start" | "kb" | "agent" | "built" | "dump"
                    \*       | "done" | "crashed" | "killed"
  worker_args,      \* id -> [role, goal] given on the command line
  result,           \* id -> local result of run_worker (a dict)
  \* ---- check_worker_status (kernel.py 185-203) ----
  polled            \* value returned by the last check_worker_status call

invokeVars == <<wrapper_pc, func_name, kwargs, current_kwargs, last_error,
                attempt, tries, calls, heals, ret, invocations, answer, approved>>

masterVars == <<master_pc, request, worker_id, prompts, spawn_ret, issued, handles,
                choice, executed, dispatched>>

workerVars == <<worker_pc, worker_args, result>>

dispatchVars == <<masterVars, dirs, file, workerVars, polled>>

vars == <<invokeVars, dispatchVars>>

-----------------------------------------------------------------------------
\* Bounds of the model

MaxInvokes == 2

MaxPrompts == 1

-----------------------------------------------------------------------------
\* Python values and strings

EmptyMap == <<>>

PyDict(m) == [ty |-> "dict", v |-> m]

PyList == [ty |-> "list", v |-> EmptyMap]

\* keyword-argument mappings used as inputs and as healer answers
ArgMaps == { ("p" :> "1"), ("p" :> "2"), ("q" :> "1") }

\* dict "new" laid over dict "old" (what old.update(new) would give)
Merged(old, new) == new @@ old

FuncNames == {"read_file", "write_file"}

Results == { <<"r1">>, <<"r2">> }

Errors == {"e1", "e2"}

\* str(int) for the numbers the model formats
Str(n) == CASE n = 0 -> "0" [] n = 1 -> "1" [] n = 2 -> "2"
            [] n = 3 -> "3" [] n = 4 -> "4" [] OTHER -> "n"

-----------------------------------------------------------------------------
\* The healer's response text and its cleaning (kernel.py 58-61)

Tok(t, m) == [t |-> t, v |-> m]

FenceJson == Tok("fence_json", PyList)
Fence == Tok("fence", PyList)
ThinkOpen == Tok("<think>", PyList)
ThinkClose == Tok("</think>", PyList)
Prose == Tok("prose", PyList)
Json(val) == Tok("json", val)

\* line 58: both replace calls drop the code-fence markers, then strip()
NotFence(tk) == tk.t \notin {"fence_json", "fence"}

StripFences(s) == SelectSeq(s, NotFence)

\* line 59: re.sub of the non-greedy pattern <think>.*?</think>, then strip()
RECURSIVE StripThink(_)
StripThink(s) ==
  LET opens == { i \in 1..Len(s) :
                   /\ s[i].t = "<think>"
                   /\ \E j \in (i+1)..Len(s) : s[j].t = "</think>" }
  IN IF opens = {} THEN s
     ELSE LET i == CHOOSE a \in opens : \A b \in opens : a <= b
              j == CHOOSE a \in (i+1)..Len(s) :
                     /\ s[a].t = "</think>"
                     /\ \A b \in (i+1)..Len(s) : s[b].t = "</think>" => a <= b
          IN StripThink(SubSeq(s, 1, i-1) \o SubSeq(s, j+1, Len(s)))

clean_resp(response) == StripThink(StripFences(response))

\* json.loads: [ok, val]; it raises unless the text is exactly one JSON value
json_loads(text) ==
  IF Len(text) = 1 /\ text[1].t = "json"
    THEN [ok |-> TRUE, val |-> text[1].v]
    ELSE [ok |-> FALSE, val |-> PyList]

\* Texts the healer model may answer with
Responses ==
     { <<Json(PyDict(m))>> : m \in ArgMaps }
  \cup { <<Json(PyList)>>,
         <<FenceJson, Json(PyDict("p" :> "2")), Fence>>,
         <<ThinkOpen, Prose, ThinkClose, FenceJson, Json(PyDict("q" :> "1")), Fence>>,
         <<Prose>>,
         <<ThinkOpen, Json(PyDict("p" :> "1"))>> }

\* Outcomes of healer.run(prompt).content
HealerOutcomes ==
     { [kind |-> "text", text |-> r] : r \in Responses }
  \cup { [kind |-> "raise", text |-> <<>>],      \* healer.run raises
         [kind |-> "none", text |-> <<>>] }      \* content is None: .replace raises

-----------------------------------------------------------------------------
\* self_healing_tool.wrapper

attempts == 3

\* a healer that updates the old arguments instead of replacing them
HealedKwargsMerging(cur, h) ==
  IF h.kind = "text" /\ json_loads(clean_resp(h.text)).ok
    THEN LET new == json_loads(clean_resp(h.text)).val
         IN IF new.ty = "dict" /\ cur.ty = "dict"
              THEN PyDict(Merged(cur.v, new.v)) ELSE new
    ELSE cur

\* an except clause that resets the arguments when the answer cannot be used
HealedKwargsResetting(cur, h) ==
  IF h.kind = "text" /\ json_loads(clean_resp(h.text)).ok
    THEN json_loads(clean_resp(h.text)).val
    ELSE PyDict(EmptyMap)

\* lines 53-65: the value of current_kwargs after the inner try/except
HealedKwargs(cur, h) ==
  IF h.kind = "text" /\ json_loads(clean_resp(h.text)).ok
    THEN json_loads(clean_resp(h.text)).val
    ELSE cur

\* line 67
FailureString(name, n, err) ==
  <<"Tool", name, "failed permanently after", Str(n), "attempts. Last error:", err>>

\* a wrapper that reports the result instead of handing it on
ReturnOfReported(out) == <<"Tool succeeded:">> \o out

\* line 37, success: what wrapper returns for the operation's result
ReturnOf(out) == out

\* line 35: the for loop goes on to another attempt
LoopContinues(a) == a + 1 < attempts

\* screenshot_tool.py 8-10: requires_permission around self_healing_tool
OuterGated == {"capture_app_screenshot"}

\* kernel.py 207-219 with require_network: self_healing_tool around a function
\* that calls the permission-gated SandboxedExecutor._execute_with_permission
InnerGated == {"execute_python_code"}

NotApproved == [ok |-> FALSE, v |-> EmptyMap]
Approved(m) == [ok |-> TRUE, v |-> m]

\* lines 30-33
Invoke(name, kw) ==
  /\ wrapper_pc \in {"idle", "returned", "raised"}
  /\ invocations < MaxInvokes
  /\ invocations' = invocations + 1
  /\ func_name' = name
  /\ kwargs' = kw
  /\ current_kwargs' = PyDict(kw)
  /\ last_error' = ""
  /\ attempt' = 0
  /\ tries' = <<>>
  /\ calls' = <<>>
  /\ heals' = <<>>
  /\ ret' = <<>>
  /\ answer' = ""
  /\ approved' = NotApproved
  /\ wrapper_pc' = "call"
  /\ UNCHANGED dispatchVars

\* lines 36-37: func(*args, **current_kwargs) returns
AttemptReturns ==
  /\ UNCHANGED dispatchVars
  /\ wrapper_pc = "call"
  /\ func_name \notin InnerGated
  /\ current_kwargs.ty = "dict"
  /\ \E out \in Results :
       /\ calls' = Append(calls, [args |-> current_kwargs.v, ok |-> TRUE, out |-> out])
       /\ ret' = ReturnOf(out)
  /\ tries' = Append(tries, current_kwargs)
  /\ wrapper_pc' = "returned"
  /\ UNCHANGED <<func_name, kwargs, current_kwargs, last_error, attempt, heals,
                 invocations, answer, approved>>

\* lines 36-40: func(*args, **current_kwargs) raises
AttemptRaises ==
  /\ UNCHANGED dispatchVars
  /\ wrapper_pc = "call"
  /\ current_kwargs.ty = "dict"
  /\ \E e \in Errors :
       /\ calls' = Append(calls, [args |-> current_kwargs.v, ok |-> FALSE, out |-> <<e>>])
       /\ last_error' = e
  /\ tries' = Append(tries, current_kwargs)
  /\ wrapper_pc' = "healer"
  /\ UNCHANGED <<func_name, kwargs, current_kwargs, attempt, heals, ret, invocations,
                 answer, approved>>

\* line 37 with a current_kwargs that is no mapping: "**" raises TypeError
\* before func is entered; the except clause of line 38 catches it
AttemptTypeError ==
  /\ UNCHANGED dispatchVars
  /\ wrapper_pc = "call"
  /\ current_kwargs.ty # "dict"
  /\ last_error' = "TypeError"
  /\ tries' = Append(tries, current_kwargs)
  /\ wrapper_pc' = "healer"
  /\ UNCHANGED <<func_name, kwargs, current_kwargs, attempt, calls, heals, ret,
                 invocations, answer, approved>>

\* lines 43-51: Agent(model=Gemini(...), instructions=[...]) is built inside the
\* except clause and outside the inner try: if it raises, wrapper raises
HealerSetup ==
  /\ UNCHANGED dispatchVars
  /\ wrapper_pc = "healer"
  /\ \E ok \in BOOLEAN :
       wrapper_pc' = IF ok THEN "heal" ELSE "raised"
  /\ UNCHANGED <<func_name, kwargs, current_kwargs, last_error, attempt, tries,
                 calls, heals, ret, invocations, answer, approved>>

\* lines 53-67: healer.run, cleaning, json.loads; then the loop's next round or
\* the final return
Heal ==
  /\ UNCHANGED dispatchVars
  /\ wrapper_pc = "heal"
  /\ \E h \in HealerOutcomes :
       /\ current_kwargs' = HealedKwargs(current_kwargs, h)
       /\ heals' = Append(heals, h)
  /\ attempt' = attempt + 1
  /\ IF LoopContinues(attempt)
       THEN /\ wrapper_pc' = "call"
            /\ ret' = ret
       ELSE /\ wrapper_pc' = "returned"
            /\ ret' = FailureString(func_name, attempts, last_error)
  /\ UNCHANGED <<func_name, kwargs, last_error, tries, calls, invocations, answer,
                 approved>>

-----------------------------------------------------------------------------
\* JSON text of a ResultRecord: json.dump / json.load / json.dumps

IDs == {"id1", "id2"}

Tasks == { [role |-> "Researcher", goal |-> "Summarize topic X"],
           [role |-> "Coder", goal |-> "Fix bug Y"] }

NoTask == [role |-> "", goal |-> ""]

\* a response.content that json cannot serialize
NonSerializable == "<object>"

Contents == {"answer", NonSerializable}

RunErrors == {"model unavailable"}

KeyOrder == <<"status", "role", "goal", "response", "error">>

Chunk(k, v) == [k |-> k, v |-> v]

LBrace == Chunk("{", "")
RBrace == Chunk("}", "")
KeyOnly(k) == Chunk(k, "<no value>")

IsPair(c) == c.k \notin {"{", "}"} /\ c.v # "<no value>"

RECURSIVE Pairs(_, _)
Pairs(d, keys) ==
  IF keys = <<>> THEN <<>>
  ELSE IF Head(keys) \in DOMAIN d
         THEN <<Chunk(Head(keys), d[Head(keys)])>> \o Pairs(d, Tail(keys))
         ELSE Pairs(d, Tail(keys))

\* json.dumps(d, indent=2): the chunks of the complete text
json_dumps(d) == <<LBrace>> \o Pairs(d, KeyOrder) \o <<RBrace>>

\* json.dump(d, f): the chunks written before it returns or raises TypeError
RECURSIVE Written(_)
Written(chunks) ==
  IF chunks = <<>> THEN <<>>
  ELSE IF Head(chunks).v = NonSerializable
         THEN <<KeyOnly(Head(chunks).k)>>
         ELSE <<Head(chunks)>> \o Written(Tail(chunks))

json_dump(d) == Written(json_dumps(d))

DumpRaises(d) == json_dump(d) # json_dumps(d)

\* json.load(f): [ok, val]; it raises unless the text is one complete object
json_load(data) ==
  IF /\ Len(data) >= 2
     /\ data[1] = LBrace
     /\ data[Len(data)] = RBrace
     /\ \A i \in 2..(Len(data) - 1) : IsPair(data[i])
    THEN [ok |-> TRUE,
          val |-> [k \in { data[i].k : i \in 2..(Len(data) - 1) } |->
                     data[CHOOSE i \in 2..(Len(data) - 1) : data[i].k = k /\
                        \A j \in 2..(Len(data) - 1) : data[j].k = k => j <= i].v ]]
    ELSE [ok |-> FALSE, val |-> EmptyMap]

NoFile == [exists |-> FALSE, data |-> <<>>]

-----------------------------------------------------------------------------
\* check_worker_status (kernel.py 185-203)

PollResult(kind, id, body) == [kind |-> kind, id |-> id, body |-> body]

\* a poller that reports an unreadable file as still running
check_worker_status_lenient(id) ==
  IF file[id].exists /\ json_load(file[id].data).ok
    THEN PollResult("Completed", id, json_dumps(json_load(file[id].data).val))
    ELSE PollResult("Pending", id, <<>>)

\* a poller that takes the workspace directory for the result
check_worker_status_dir(id) ==
  IF file[id].exists \/ id \in dirs
    THEN IF json_load(file[id].data).ok
           THEN PollResult("Completed", id, json_dumps(json_load(file[id].data).val))
           ELSE PollResult("ReadError", id, <<>>)
    ELSE PollResult("Pending", id, <<>>)

\* a poller that hands on the text of the file without parsing it
check_worker_status_raw(id) ==
  IF file[id].exists
    THEN PollResult("Completed", id, file[id].data)
    ELSE PollResult("Pending", id, <<>>)

check_worker_status(id) ==
  IF file[id].exists
    THEN IF json_load(file[id].data).ok
           THEN PollResult("Completed", id, json_dumps(json_load(file[id].data).val))
           ELSE PollResult("ReadError", id, <<>>)
    ELSE PollResult("Pending", id, <<>>)

\* a poller that removes the result file once it has read the record
PollConsuming(id) ==
  /\ master_pc = "idle"
  /\ polled' = check_worker_status(id)
  /\ file' = [file EXCEPT ![id] =
                IF check_worker_status(id).kind = "Completed" THEN NoFile ELSE @]
  /\ UNCHANGED <<invokeVars, masterVars, dirs, workerVars>>

\* the orchestrator is one sequential flow: it polls between its other calls
Poll(id) ==
  /\ master_pc = "idle"
  /\ polled' = check_worker_status(id)
  /\ UNCHANGED <<invokeVars, masterVars, dirs, file, workerVars>>

-----------------------------------------------------------------------------
\* requires_permission(spawn_worker)

Choices == {"y", "n", "other"}

SpawnRet(kind, id) == [kind |-> kind, id |-> id]

NoId == "none"

\* a gate that runs the function on every answer but "n"
GateRunsUnlessDenied(c) ==
  IF c = "n" THEN "deny" ELSE "execute"

\* a gate that never recognises the answer "n"
GateNeverDenies(c) ==
  IF c = "y" THEN "execute" ELSE "reprompt"

\* security.py 24-31: what the prompt loop does with one answer
Gate(c) ==
  IF c = "y" THEN "execute" ELSE IF c = "n" THEN "deny" ELSE "reprompt"

\* a generator that can return an id it has returned before
uuid4_repeating == IDs

\* kernel.py 170: the values uuid.uuid4() can return next, each one new
uuid4 == IDs \ issued

\* a command line with the role and the goal in each other's place
cmd_swapped(req) == [role |-> req.goal, goal |-> req.role]

\* kernel.py 175-180: the --role and --goal arguments of the command line
cmd(req) == [role |-> req.role, goal |-> req.goal]

\* a makedirs whose failure is swallowed, so that spawn_worker goes on
makedirs_swallowed(ok) == TRUE

\* kernel.py 172: os.makedirs returns when it made the directory (ok), and
\* otherwise raises out of spawn_worker
makedirs_returns(ok) == ok

\* the call returns or raises: its locals are gone
SpawnEnds ==
  /\ master_pc' = "idle"
  /\ request' = NoTask
  /\ worker_id' = NoId
  /\ prompts' = 0

\* security.py 11-20: the call arrives and the alert is printed
SpawnCall(role, goal) ==
  /\ master_pc = "idle"
  /\ request' = [role |-> role, goal |-> goal]
  /\ prompts' = 0
  /\ spawn_ret' = SpawnRet("none", NoId)
  /\ choice' = ""
  /\ executed' = 0
  /\ master_pc' = "prompt"
  /\ UNCHANGED <<invokeVars, worker_id, issued, handles, dispatched, dirs, file,
                 workerVars, polled>>

\* security.py 22-31: one answer to input(); on "y" spawn_worker starts and
\* draws its uuid4 (kernel.py 170-171)
GateInput(c) ==
  /\ master_pc = "prompt"
  /\ choice' = c
  /\ CASE Gate(c) = "execute" ->
            /\ \E id \in uuid4 :
                 /\ worker_id' = id
                 /\ issued' = issued \cup {id}
            /\ executed' = executed + 1
            /\ master_pc' = "makedirs"
            /\ UNCHANGED <<request, prompts, spawn_ret>>
       [] Gate(c) = "deny" ->
            /\ spawn_ret' = SpawnRet("denied", NoId)
            /\ SpawnEnds
            /\ UNCHANGED <<issued, executed>>
       [] OTHER ->
            /\ prompts < MaxPrompts
            /\ prompts' = prompts + 1
            /\ UNCHANGED <<master_pc, request, worker_id, issued, spawn_ret, executed>>
  /\ UNCHANGED <<invokeVars, handles, dispatched, dirs, file, workerVars, polled>>

\* kernel.py 172: os.makedirs(workspace_dir, exist_ok=True) succeeds or raises
Makedirs ==
  /\ master_pc = "makedirs"
  /\ \E ok \in BOOLEAN :
       /\ dirs' = IF ok THEN dirs \cup {worker_id} ELSE dirs
       /\ IF makedirs_returns(ok)
            THEN /\ master_pc' = "popen"
                 /\ UNCHANGED <<request, worker_id, prompts, spawn_ret>>
            ELSE /\ spawn_ret' = SpawnRet("raised", worker_id)
                 /\ SpawnEnds
  /\ UNCHANGED <<invokeVars, issued, handles, choice, executed, dispatched, file,
                 workerVars, polled>>

\* kernel.py 175-183: subprocess.Popen starts the worker and the message with
\* the id is returned, or Popen raises (the command cannot be started)
Popen ==
  /\ master_pc = "popen"
  /\ \E ok \in BOOLEAN :
       IF ok
         THEN /\ worker_pc' = [worker_pc EXCEPT ![worker_id] = "start"]
              /\ worker_args' = [worker_args EXCEPT ![worker_id] = cmd(request)]
              /\ handles' = handles \cup {worker_id}
              /\ dispatched' = [dispatched EXCEPT ![worker_id] = request]
              /\ spawn_ret' = SpawnRet("started", worker_id)
         ELSE /\ UNCHANGED <<worker_pc, worker_args, handles, dispatched>>
              /\ spawn_ret' = SpawnRet("raised", worker_id)
  /\ SpawnEnds
  /\ UNCHANGED <<invokeVars, issued, choice, executed, dirs, file, result, polled>>

-----------------------------------------------------------------------------
\* agents/worker.py run_worker, one process per launched id

\* an except clause whose record also carries an empty response
ErrorRecordWithResponse(role, goal, err) ==
  ("status" :> "error") @@ ("role" :> role) @@ ("goal" :> goal)
    @@ ("response" :> "") @@ ("error" :> err)

SuccessRecord(role, goal, content) ==
  ("status" :> "success") @@ ("role" :> role) @@ ("goal" :> goal)
    @@ ("response" :> content)

ErrorRecord(role, goal, err) ==
  ("status" :> "error") @@ ("role" :> role) @@ ("goal" :> goal)
    @@ ("error" :> err)

WorkerStep(id, pc) ==
  /\ worker_pc' = [worker_pc EXCEPT ![id] = pc]
  /\ UNCHANGED <<invokeVars, masterVars, dirs, worker_args, polled>>

\* lines 21-27: Knowledge(vector_db=LanceDb(...)) returns or raises
WConnect(id) ==
  /\ worker_pc[id] = "start"
  /\ \E ok \in BOOLEAN : WorkerStep(id, IF ok THEN "kb" ELSE "crashed")
  /\ UNCHANGED <<file, result>>

\* lines 30-41: Agent(...) returns or raises
WAgent(id) ==
  /\ worker_pc[id] = "kb"
  /\ \E ok \in BOOLEAN : WorkerStep(id, IF ok THEN "agent" ELSE "crashed")
  /\ UNCHANGED <<file, result>>

\* lines 43-57: agent.run(goal) and response.content, or the except clause
WRun(id) ==
  /\ worker_pc[id] = "agent"
  /\ \/ \E c \in Contents :
          result' = [result EXCEPT ![id] =
            SuccessRecord(worker_args[id].role, worker_args[id].goal, c)]
     \/ \E e \in RunErrors :
          result' = [result EXCEPT ![id] =
            ErrorRecord(worker_args[id].role, worker_args[id].goal, e)]
  /\ WorkerStep(id, "built")
  /\ UNCHANGED file

\* lines 60-61: open(result_file, "w") creates the file, empty
WOpen(id) ==
  /\ worker_pc[id] = "built"
  /\ file' = [file EXCEPT ![id] = [exists |-> TRUE, data |-> <<>>]]
  /\ WorkerStep(id, "dump")
  /\ UNCHANGED result

\* line 62, json.dump under way: more of the written chunks reach the file
WFlush(id) ==
  /\ worker_pc[id] = "dump"
  /\ \E n \in (Len(file[id].data) + 1)..Len(json_dump(result[id])) :
       file' = [file EXCEPT ![id].data = SubSeq(json_dump(result[id]), 1, n)]
  /\ WorkerStep(id, "dump")
  /\ UNCHANGED result

\* lines 61-64: json.dump returns or raises TypeError, the with block closes
\* the file (everything written reaches it), and run_worker returns or raises;
\* result keeps the record a finished worker has produced
WClose(id) ==
  /\ worker_pc[id] = "dump"
  /\ file' = [file EXCEPT ![id].data = json_dump(result[id])]
  /\ WorkerStep(id, IF DumpRaises(result[id]) THEN "crashed" ELSE "done")
  /\ result' = [result EXCEPT ![id] = IF DumpRaises(result[id]) THEN EmptyMap ELSE @]

Running(id) == worker_pc[id] \in {"start", "kb", "agent", "built", "dump"}

\* the detached process (kernel.py 182) is ended from outside
WKill(id) ==
  /\ Running(id)
  /\ WorkerStep(id, "killed")
  /\ result' = [result EXCEPT ![id] = EmptyMap]
  /\ UNCHANGED file

-----------------------------------------------------------------------------
\* Tools that are both permission-gated and self-healing

\* security.py 29: the message the gate returns on the answer n
Denial == <<"Permission Denied: User rejected the execution of this tool.">>

\* a gate that raises on the answer n instead of returning the message
DenialRaised == "raise"

\* security.py 27-29: on n the gate returns, it does not raise
DenialOutcome == "return"

\* security.py 11-20, screenshot_tool.py 8: the call of an outer-gated tool
\* enters the gate, which shows the caller's arguments
GatedInvoke(name, kw) ==
  /\ wrapper_pc \in {"idle", "returned", "raised"}
  /\ invocations < MaxInvokes
  /\ invocations' = invocations + 1
  /\ func_name' = name
  /\ kwargs' = kw
  /\ current_kwargs' = PyDict(kw)
  /\ last_error' = ""
  /\ attempt' = 0
  /\ tries' = <<>>
  /\ calls' = <<>>
  /\ heals' = <<>>
  /\ ret' = <<>>
  /\ answer' = ""
  /\ approved' = NotApproved
  /\ wrapper_pc' = "gate"
  /\ UNCHANGED dispatchVars

\* security.py 22-31 around the self-healing wrapper: y enters the wrapper
\* (kernel.py 30-33), n returns the denial, anything else prompts again
OuterGate(c) ==
  /\ wrapper_pc = "gate"
  /\ answer' = c
  /\ CASE Gate(c) = "execute" ->
            /\ approved' = Approved(kwargs)
            /\ wrapper_pc' = "call"
            /\ ret' = ret
       [] Gate(c) = "deny" ->
            /\ wrapper_pc' = "returned"
            /\ ret' = Denial
            /\ approved' = approved
       [] OTHER ->
            UNCHANGED <<wrapper_pc, ret, approved>>
  /\ UNCHANGED <<func_name, kwargs, current_kwargs, last_error, attempt, tries,
                 calls, heals, invocations>>
  /\ UNCHANGED dispatchVars

\* kernel.py 37 and 213, docker_tools.py 46-47, security.py 11-20: the attempt
\* enters the function, which asks for network access and reaches the prompt
AttemptPrompts ==
  /\ wrapper_pc = "call"
  /\ func_name \in InnerGated
  /\ current_kwargs.ty = "dict"
  /\ tries' = Append(tries, current_kwargs)
  /\ answer' = ""
  /\ wrapper_pc' = "prompt"
  /\ UNCHANGED <<func_name, kwargs, current_kwargs, last_error, attempt, calls,
                 heals, ret, invocations, approved>>
  /\ UNCHANGED dispatchVars

\* security.py 22-31 inside the attempt: on y the container runs and the
\* function returns its text (docker_tools.py 15-37 catches every exception);
\* on n the function returns the denial; the wrapper returns either at line 37
InnerGate(c) ==
  /\ wrapper_pc = "prompt"
  /\ answer' = c
  /\ CASE Gate(c) = "execute" ->
            /\ \E out \in Results :
                 /\ calls' = Append(calls, [args |-> current_kwargs.v, ok |-> TRUE,
                                             out |-> out])
                 /\ ret' = ReturnOf(out)
            /\ approved' = Approved(current_kwargs.v)
            /\ wrapper_pc' = "returned"
            /\ UNCHANGED last_error
       [] Gate(c) = "deny" ->
            /\ approved' = approved
            /\ IF DenialOutcome = "return"
                 THEN /\ calls' = Append(calls, [args |-> current_kwargs.v,
                                                  ok |-> TRUE, out |-> Denial])
                      /\ ret' = ReturnOf(Denial)
                      /\ wrapper_pc' = "returned"
                      /\ UNCHANGED last_error
                 ELSE /\ calls' = Append(calls, [args |-> current_kwargs.v,
                                                  ok |-> FALSE, out |-> Denial])
                      /\ last_error' = "PermissionError"
                      /\ wrapper_pc' = "healer"
                      /\ ret' = ret
       [] OTHER ->
            UNCHANGED <<wrapper_pc, ret, approved, calls, last_error>>
  /\ UNCHANGED <<func_name, kwargs, current_kwargs, attempt, tries, heals,
                 invocations>>
  /\ UNCHANGED dispatchVars

-----------------------------------------------------------------------------
Init ==
  /\ wrapper_pc = "idle"
  /\ func_name = "read_file"
  /\ kwargs = EmptyMap
  /\ current_kwargs = PyDict(EmptyMap)
  /\ last_error = ""
  /\ attempt = 0
  /\ tries = <<>>
  /\ calls = <<>>
  /\ heals = <<>>
  /\ ret = <<>>
  /\ invocations = 0
  /\ answer = ""
  /\ approved = NotApproved
  /\ master_pc = "idle"
  /\ request = NoTask
  /\ worker_id = NoId
  /\ prompts = 0
  /\ spawn_ret = SpawnRet("none", NoId)
  /\ issued = {}
  /\ handles = {}
  /\ choice = ""
  /\ executed = 0
  /\ dispatched = [id \in IDs |-> NoTask]
  /\ dirs = {}
  /\ file = [id \in IDs |-> NoFile]
  /\ worker_pc = [id \in IDs |-> "none"]
  /\ worker_args = [id \in IDs |-> NoTask]
  /\ result = [id \in IDs |-> EmptyMap]
  /\ polled = PollResult("none", NoId, <<>>)

NextInvoke ==
  \/ \E name \in FuncNames, kw \in ArgMaps : Invoke(name, kw)
  \/ AttemptReturns
  \/ AttemptRaises
  \/ AttemptTypeError
  \/ HealerSetup
  \/ Heal

SpecInvoke == Init /\ [][NextInvoke]_vars

NextGated ==
  \/ \E name \in OuterGated, kw \in ArgMaps : GatedInvoke(name, kw)
  \/ \E name \in InnerGated, kw \in ArgMaps : Invoke(name, kw)
  \/ \E c \in Choices : OuterGate(c)
  \/ AttemptPrompts
  \/ \E c \in Choices : InnerGate(c)
  \/ AttemptReturns
  \/ AttemptRaises
  \/ AttemptTypeError
  \/ HealerSetup
  \/ Heal

SpecGated == Init /\ [][NextGated]_vars

Next ==
  \/ \E t \in Tasks : SpawnCall(t.role, t.goal)
  \/ \E c \in Choices : GateInput(c)
  \/ Makedirs
  \/ Popen
  \/ \E id \in IDs : WConnect(id)
  \/ \E id \in IDs : WAgent(id)
  \/ \E id \in IDs : WRun(id)
  \/ \E id \in IDs : WOpen(id)
  \/ \E id \in IDs : WFlush(id)
  \/ \E id \in IDs : WClose(id)
  \/ \E id \in IDs : WKill(id)
  \/ \E id \in IDs : Poll(id)

Spec == Init /\ [][Next]_vars

-----------------------------------------------------------------------------
\* Properties of self_healing_tool.wrapper (checked under SpecInvoke)

WrapperEnded == wrapper_pc \in {"returned", "raised"}

\* Healer answers that denote the mapping m: plain, code-fenced, and
\* code-fenced after a reasoning-trace block
DenotesMapping(text, m) ==
  \/ text = <<Json(PyDict(m))>>
  \/ text = <<FenceJson, Json(PyDict(m)), Fence>>
  \/ text = <<ThinkOpen, Prose, ThinkClose, FenceJson, Json(PyDict(m)), Fence>>

\* Healer outcomes that give no JSON text at all: the call raised, it gave no
\* content, or the text is prose or an unclosed reasoning trace
Unparsable(h) ==
  \/ h.kind \in {"raise", "none"}
  \/ h.text = <<Prose>>
  \/ /\ Len(h.text) >= 1
     /\ h.text[1] = ThinkOpen
     /\ \A j \in 1..Len(h.text) : h.text[j] # ThinkClose

\* The attempts whose arguments were a mapping, in order
IsMapping(val) == val.ty = "dict"

MappingTries == SelectSeq(tries, IsMapping)

\* C3: when the wrapper has ended and every call of the operation failed, the
\* operation was called exactly 3 times and the wrapper returned the failure
\* string naming the operation, the count 3 and the third call's error text.
C3_AlwaysFailingThreeCalls ==
  (WrapperEnded /\ \A i \in 1..Len(calls) : ~calls[i].ok)
    => /\ wrapper_pc = "returned"
       /\ Len(calls) = 3
       /\ Len(ret) = 6
       /\ ret[2] = func_name
       /\ ret[4] = "3"
       /\ ret[6] = calls[3].out[1]

\* C4: no exception ever escapes the wrapper: it never ends by raising.
C4_NeverRaises == wrapper_pc # "raised"

\* C5: the corrective step is entered only while fewer than 3 attempts have
\* been made, so one invocation makes at most 2 corrective calls.
C5_NoHealingAfterLastAttempt ==
  /\ wrapper_pc \in {"healer", "heal"} => Len(tries) < attempts
  /\ Len(heals) <= attempts - 1

\* C6: when the first call (with the caller's arguments) failed, the first
\* corrective answer denoted the mapping m and the second call succeeded, the
\* operation was called exactly twice, the second call received exactly m, and
\* the wrapper returned the second call's result.
C6_CorrectedArgsReplace ==
  \A m \in ArgMaps :
    ( /\ Len(calls) >= 2
      /\ ~calls[1].ok
      /\ Len(heals) >= 1
      /\ DenotesMapping(heals[1].text, m)
      /\ calls[2].ok )
    => /\ Len(calls) = 2
       /\ calls[1].args = kwargs
       /\ calls[2].args = m
       /\ wrapper_pc = "returned"
       /\ ret = calls[2].out

C6_Witness ==
  /\ wrapper_pc = "returned"
  /\ Len(calls) = 2
  /\ ~calls[1].ok
  /\ calls[2].ok
  /\ Len(heals) = 1
  /\ DenotesMapping(heals[1].text, ("q" :> "1"))
  /\ kwargs = ("p" :> "1")

\* C7: a successful call is the last thing the wrapper does: its result is
\* returned unchanged, no call and no corrective call follows it, and a success
\* of the first attempt means the corrective step was never invoked.
C7_SuccessReturnedUnchanged ==
  \A i \in 1..Len(calls) :
    calls[i].ok
      => /\ i = Len(calls)
         /\ wrapper_pc = "returned"
         /\ ret = calls[i].out
         /\ Len(heals) = Len(tries) - 1
         /\ (Len(tries) = 1 => heals = <<>>)

C7_Witness ==
  /\ wrapper_pc = "returned"
  /\ Len(calls) = 3
  /\ calls[3].ok
  /\ Len(heals) = 2

-----------------------------------------------------------------------------
\* Properties of the result rendezvous (checked under Spec)

\* Every record run_worker can build
Records ==
     { SuccessRecord(t.role, t.goal, c) : t \in Tasks, c \in Contents }
  \cup { ErrorRecord(t.role, t.goal, e) : t \in Tasks, e \in RunErrors }

\* A file content that is not the complete JSON text of any record
Malformed(data) == \A r \in Records : data # json_dumps(r)

\* C1: atomic publish: whatever the worker is doing, a poll returns Pending
\* or Completed, never ReadError: no poll sees a partly written result file.
C1_AtomicPublish ==
  [][\A id \in IDs : Poll(id) => polled'.kind \in {"Pending", "Completed"}]_vars

\* C2: a worker process that has ended by itself has not raised out of
\* run_worker and has left a complete record in its result file.
C2_WorkerAlwaysWritesRecord ==
  \A id \in IDs :
    worker_pc[id] \in {"done", "crashed"}
      => /\ worker_pc[id] = "done"
         /\ file[id].exists
         /\ ~Malformed(file[id].data)

\* C9: a poll of an id whose workspace holds no result file returns Pending,
\* whether the id was dispatched, its worker runs, crashed or was killed, or the
\* id was never dispatched.
C9_NoFileIsPending ==
  [][\A id \in IDs :
       (Poll(id) /\ ~file[id].exists)
         => polled' = PollResult("Pending", id, <<>>)]_vars

C9_Witness ==
  /\ polled.kind = "Pending"
  /\ polled.id \in handles
  /\ polled.id \in dirs
  /\ ~file[polled.id].exists
  /\ Running(polled.id)

\* C10: a poll of an id whose result file is present but malformed returns
\* ReadError, neither Pending nor Completed.
C10_MalformedIsReadError ==
  [][\A id \in IDs :
       (Poll(id) /\ file[id].exists /\ Malformed(file[id].data))
         => polled' = PollResult("ReadError", id, <<>>)]_vars

C10_Witness ==
  /\ polled.kind = "ReadError"
  /\ file[polled.id].exists
  /\ Malformed(file[polled.id].data)
  /\ file[polled.id].data # <<>>
  /\ worker_pc[polled.id] = "crashed"

\* The value a JSON text gives under a key: the text has one member with
\* this key, and its value is v
Member(text, k, v) ==
  /\ \E i \in 1..Len(text) : text[i] = Chunk(k, v)
  /\ \A i \in 1..Len(text) : ("k" \in DOMAIN text[i] /\ text[i].k = k) => text[i].v = v

\* C11: round trip: a poll of a handle whose worker has published returns
\* Completed for that handle, with the text of the record the worker produced:
\* its status is the worker's, and its role and goal are the ones spawn_worker
\* was called with for this handle.
C11_RoundTrip ==
  [][\A id \in IDs :
       (Poll(id) /\ id \in handles /\ worker_pc[id] = "done")
         => /\ polled'.kind = "Completed"
            /\ polled'.id = id
            /\ polled'.body = json_dumps(result[id])
            /\ Member(polled'.body, "status", result[id]["status"])
            /\ Member(polled'.body, "role", dispatched[id].role)
            /\ Member(polled'.body, "goal", dispatched[id].goal)]_vars

C11_Witness ==
  /\ handles = IDs
  /\ \A id \in IDs : worker_pc[id] = "done"
  /\ dispatched["id1"] # dispatched["id2"]
  /\ polled.kind = "Completed"
  /\ Member(polled.body, "role", dispatched[polled.id].role)
  /\ \E id \in IDs : ~Member(polled.body, "role", dispatched[id].role)

\* C12: the results of successive polls of one handle only improve: after
\* Pending comes Pending or Completed, after Completed comes Completed with
\* the same record, and nothing but Pending comes before Completed.
C12_PollsOnlyImprove ==
  [][\A id \in IDs :
       (Poll(id) /\ polled.id = id)
         => \/ polled.kind = "Pending" /\ polled'.kind \in {"Pending", "Completed"}
            \/ polled.kind = "Completed" /\ polled' = polled]_vars

IsPrefix(a, b) == Len(a) <= Len(b) /\ SubSeq(b, 1, Len(a)) = a

\* C13: at most one record is ever written per handle: a worker is launched
\* only into a workspace that has no worker, no handle and no result file (so
\* no workspace serves two handles or two workers), the result file is opened
\* once, by that worker after its run, and only grows until the record is
\* complete, and a complete record is never changed or written again.
C13_OneRecordPerHandle ==
  [][\A id \in IDs :
       /\ (worker_pc[id] # "start" /\ worker_pc'[id] = "start")
            => /\ worker_pc[id] = "none"
               /\ id \notin handles
               /\ ~file[id].exists
               /\ \A other \in IDs \ {id} : worker_pc'[other] = worker_pc[other]
       /\ (~file[id].exists /\ file'[id].exists)
            => /\ worker_pc[id] = "built"
               /\ id \in handles
       /\ (file[id].exists /\ file'[id] # file[id])
            => /\ worker_pc[id] = "dump"
               /\ file'[id].exists
               /\ IsPrefix(file[id].data, file'[id].data)
               /\ file[id].data # json_dumps(result[id])]_vars

C13_Witness ==
  /\ handles = IDs
  /\ \A id \in IDs : file[id].exists /\ ~Malformed(file[id].data)
  /\ file["id1"].data # file["id2"].data
  /\ \A id \in IDs : worker_pc[id] = "done"

\* C14: the workspace directory exists before the worker is launched and
\* before spawn_worker returns the handle: every launched worker and every
\* returned handle has its directory, spawn_worker reaches Popen only with the
\* directory made, and an id whose directory could not be made has no worker
\* and is no handle.
C14_WorkspaceBeforeWorker ==
  /\ \A id \in IDs : (worker_pc[id] # "none" \/ id \in handles) => id \in dirs
  /\ master_pc = "popen" => worker_id \in dirs
  /\ spawn_ret.kind = "started" => spawn_ret.id \in dirs
  /\ \A id \in issued \ dirs :
       (master_pc \in {"makedirs", "popen"} /\ worker_id = id) \/ spawn_ret.kind = "raised"
         => worker_pc[id] = "none" /\ id \notin handles

C14_Witness ==
  /\ spawn_ret.kind = "raised"
  /\ spawn_ret.id \notin dirs
  /\ worker_pc[spawn_ret.id] = "none"
  /\ \E id \in handles : id \in dirs /\ worker_pc[id] = "kb"

\* C15: failing to make the workspace directory is the only way an approved
\* spawn_worker fails: a call that raised has left no directory, and every
\* directory made belongs to a launched worker whose handle was returned, or to
\* the call that is about to launch it.
C15_OnlyMakedirsFails ==
  /\ spawn_ret.kind = "raised" => spawn_ret.id \notin dirs
  /\ \A id \in dirs :
       \/ id \in handles /\ worker_pc[id] # "none"
       \/ master_pc = "popen" /\ worker_id = id

\* C16: permission gate, denied: when the answer read at the prompt is n, the
\* gated spawn_worker is not run at all and the call returns the denial
\* message: no id is generated, no directory made, no worker launched, no
\* handle returned, no file touched.
C16_DeniedRunsNothing ==
  [][(master_pc = "prompt" /\ choice' = "n")
       => /\ spawn_ret' = SpawnRet("denied", NoId)
          /\ master_pc' = "idle"
          /\ executed' = 0
          /\ UNCHANGED <<issued, dirs, handles, dispatched, file, workerVars>>]_vars

C16_Witness ==
  /\ spawn_ret = SpawnRet("denied", NoId)
  /\ choice = "n"
  /\ prompts = 0
  /\ handles # {}
  /\ issued = handles

\* C17: the prompt protocol of the permission gate: an answer that is neither
\* y nor n leaves the call prompting and runs nothing; the gated function is
\* entered only on an answer y, and then once; on n the call returns the denial
\* with the function not entered; within one call the function is entered at
\* most once, and the call never goes back to prompting after it; what the call
\* returns after y is what the function returned.
C17_PromptProtocol ==
  [][/\ (master_pc = "prompt" /\ choice' = "other" /\ prompts' # prompts)
          => /\ master_pc' = "prompt"
             /\ executed' = 0
             /\ spawn_ret' = SpawnRet("none", NoId)
             /\ UNCHANGED <<issued, dirs, handles, dispatched, file, workerVars>>
     /\ (master_pc = "prompt" /\ choice' = "y")
          => /\ master_pc' = "makedirs"
             /\ executed' = 1
     /\ (master_pc = "prompt" /\ choice' = "n")
          => /\ master_pc' = "idle"
             /\ executed' = 0
             /\ spawn_ret'.kind = "denied"
     /\ executed' # executed => (choice' = "y" /\ executed' = 1) \/ master_pc = "idle"
     /\ executed' <= 1
     /\ master_pc' \in {"makedirs", "popen"} => choice' = "y" /\ executed' = 1
     /\ (master_pc # "prompt" /\ master_pc' = "prompt") => master_pc = "idle"
     /\ spawn_ret'.kind = "started"
          => /\ choice' = "y"
             /\ executed' = 1
             /\ spawn_ret'.id \in handles']_vars

C17_Witness ==
  /\ master_pc = "makedirs"
  /\ prompts > 0
  /\ choice = "y"
  /\ executed = 1
  /\ handles # {}

\* write_file has written its file: a call of it entered the function and
\* returned (kernel.py 86-90)
FileWritten ==
  /\ func_name = "write_file"
  /\ \E i \in 1..Len(calls) : calls[i].ok

\* C18: human-in-the-loop policy: write_file writes a file, and spawn_worker
\* launches a worker, only in a call for which a human was prompted and
\* answered y.
C18_HumanInTheLoop ==
  /\ FileWritten => (choice = "y" /\ executed = 1)
  /\ \A id \in IDs : worker_pc[id] # "none" => id \in issued

\* C19: a poll only reads: a step that changes the poll result, whatever the
\* state of the workspace (no file, a malformed file, a complete record),
\* changes nothing else: no directory, no file, no worker, no handle; and a
\* second poll of the same id straight after it returns the same result.
C19_PollOnlyReads ==
  [][\A id \in IDs :
       (polled' # polled /\ polled'.id = id)
         => /\ UNCHANGED <<invokeVars, masterVars, dirs, file, workerVars>>
            /\ polled' = check_worker_status(id)
            /\ (check_worker_status(id))' = polled']_vars

C19_Witness ==
  /\ polled.kind = "Completed"
  /\ file[polled.id].exists
  /\ worker_pc[polled.id] = "done"
  /\ \E id \in IDs \ {polled.id} : worker_pc[id] = "dump" /\ file[id].data # <<>>

\* The worker of id got through its reasoning call (agent.run returned or
\* raised into the except clause) and has since ended by itself, not killed:
\* the result file is opened only after the reasoning call
ReasonedAndEnded(id) ==
  /\ worker_pc[id] \in {"done", "crashed"}
  /\ file[id].exists

\* C20: a launched worker that is not killed and whose reasoning call returns
\* or raises publishes a record, and from then on a poll returns Completed: no
\* such worker has ended without its complete record in the result file.
C20_ReasonedWorkerPublishes ==
  \A id \in IDs :
    ReasonedAndEnded(id)
      => /\ worker_pc[id] = "done"
         /\ file[id].data = json_dumps(result[id])
         /\ check_worker_status(id).kind = "Completed"

\* The shape of a result record
WellShaped(r) ==
  /\ DOMAIN r \in { {"status", "role", "goal", "response"},
                    {"status", "role", "goal", "error"} }
  /\ r["status"] \in {"success", "error"}
  /\ r["status"] = "success" <=> ("response" \in DOMAIN r /\ "error" \notin DOMAIN r)
  /\ r["status"] = "error" <=> ("error" \in DOMAIN r /\ "response" \notin DOMAIN r)

\* C21: every published record, that is every result file that holds a
\* complete JSON object, has exactly the fields status, role, goal and one of
\* response or error; status is success exactly with response and without
\* error, and error exactly with error and without response. The record a
\* worker has built and not yet written has the same shape.
C21_RecordShape ==
  \A id \in IDs :
    /\ (file[id].exists /\ json_load(file[id].data).ok)
         => WellShaped(json_load(file[id].data).val)
    /\ result[id] # EmptyMap => WellShaped(result[id])

C21_Witness ==
  /\ \A id \in IDs : file[id].exists /\ json_load(file[id].data).ok
  /\ json_load(file["id1"].data).val["status"] = "success"
  /\ json_load(file["id2"].data).val["status"] = "error"

\* C22: for one handle, a poll that returns Completed comes after the
\* worker's write of the record has fully finished: a read taken while the
\* file is created and its content incomplete does not return Completed, and
\* the record returned is the complete text in the file.
C22_CompletedAfterWrite ==
  [][\A id \in IDs :
       (polled' # polled /\ polled'.id = id /\ polled'.kind = "Completed")
         => /\ file[id].exists
            /\ ~Malformed(file[id].data)
            /\ polled'.body = file[id].data
            /\ worker_pc[id] \in {"dump", "done", "killed"}
            /\ worker_pc[id] = "dump" => file[id].data = json_dumps(result[id])]_vars

C22_Witness ==
  /\ polled.kind = "Completed"
  /\ worker_pc[polled.id] = "dump"
  /\ file[polled.id].data = json_dumps(result[polled.id])
  /\ \E id \in IDs \ {polled.id} :
       worker_pc[id] = "dump" /\ file[id].data # json_dumps(result[id])

\* C23: in every state of an invocation the current arguments are a
\* keyword-argument mapping: a healer answer that is JSON but no object is
\* treated like a parse failure, and the arguments of the attempt before it are
\* kept.
C23_ArgsAlwaysMapping ==
  /\ current_kwargs.ty = "dict"
  /\ \A i \in 1..Len(heals) :
       (heals[i].kind = "text" /\ clean_resp(heals[i].text) = <<Json(PyList)>>)
         => (Len(tries) > i => tries[i + 1] = tries[i])

\* C24: for capture_app_screenshot, gated and self-healing, every call that
\* enters the operation was approved and runs with exactly the arguments shown
\* to the human at the prompt answered y: no retry with arguments changed by
\* the healer is run without a new approval of them.
C24_RunsOnlyApprovedArgs ==
  func_name \in OuterGated
    => \A i \in 1..Len(calls) :
         /\ approved.ok
         /\ calls[i].args = approved.v

\* C25: a denial inside a self-healing tool is terminal: when the prompt of
\* execute_python_code with require_network is answered n, the wrapper returns
\* the denial message at once, with no healer call and no further attempt; a
\* denial at the first attempt ends the invocation after that one attempt with
\* no healer call at all; and once the denial is returned nothing more happens
\* in that invocation: no retry, no healer call, no prompt.
C25_DenialIsTerminal ==
  [][/\ (wrapper_pc = "prompt" /\ answer' = "n")
          => /\ wrapper_pc' = "returned"
             /\ ret' = Denial
             /\ heals' = heals
             /\ attempt' = attempt
             /\ tries' = tries
             /\ Len(calls') = Len(calls) + 1
             /\ attempt = 0 => (Len(tries') = 1 /\ Len(calls') = 1 /\ heals' = <<>>)
     /\ (wrapper_pc = "returned" /\ ret = Denial /\ func_name \in InnerGated)
          => invocations' = invocations + 1]_vars

C25_Witness ==
  /\ func_name \in InnerGated
  /\ wrapper_pc = "returned"
  /\ ret = Denial
  /\ answer = "n"
  /\ heals = <<>>
  /\ Len(calls) = 1
  /\ invocations = 1

Succeeded ==
  /\ wrapper_pc = "returned"
  /\ calls # <<>>
  /\ calls[Len(calls)].ok
  /\ ret = calls[Len(calls)].out

ExhaustedFailure ==
  /\ wrapper_pc = "returned"
  /\ attempt = attempts
  /\ ret = FailureString(func_name, attempts, last_error)

\* C26: every invocation starts with attempt counter 0 and the caller's
\* arguments whatever came before, calls the operation at most 3 times, and
\* when it has ended it has ended in Succeeded or in ExhaustedFailure.
C26_EndsSucceededOrExhausted ==
  /\ Len(calls) <= attempts
  /\ attempt <= attempts
  /\ (wrapper_pc = "call" /\ tries = <<>>)
       => /\ attempt = 0
          /\ current_kwargs = PyDict(kwargs)
          /\ calls = <<>>
          /\ heals = <<>>
  /\ WrapperEnded => (Succeeded \/ ExhaustedFailure)

====
